---- MODULE Spec2Model ----
(***************************************************************************)
(* Backup-compliance pipeline of sl2: the status evaluation functions of   *)
(* the streamlit views, the two sync workers (s3_worker, easynet_worker)   *)
(* and the FastAPI readers of the Redis snapshot store.                    *)
(*                                                                         *)
(* Python values are encoded as tagged records so that values of different *)
(* Python types stay comparable.  Age factors are rationals n/Scale and    *)
(* are carried as their numerator n.                                       *)
(***************************************************************************)
EXTENDS Integers, Sequences, FiniteSets, TLC

\* ------------------------------------------------------------------ bounds
\* age factors are multiples of 1/Scale
Scale == 2
\* longest backup_list drawn as an input
MaxArtifacts == 2
\* largest artifact age (seconds) drawn as an input of the column formatter
MaxAgeSeconds == 6

\* ------------------------------------------------------------ input domains
Hostnames == {"r1", "r2"}
Types == {"config", "state"}
\* backup.get('type') that is None, absent or the empty string (falsy)
NoType == ""

\* age_info.age_factor as found in the JSON: a number n/Scale, a missing key,
\* a value float() rejects, or an age_info that is not a dict at all
AgeFactorNumerators == (0 - Scale - 1) .. (5 * Scale + 1)
AgeFactorInputs ==
    [tag : {"num"}, v : AgeFactorNumerators]
        \cup [tag : {"missing", "bad", "nodict"}, v : {0}]

\* backup['date']: an aware ISO date `age` seconds before now, a string
\* fromisoformat rejects (ValueError), a naive ISO date (TypeError on the
\* subtraction from an aware now), or a missing key (KeyError)
DateInputs ==
    [tag : {"iso"}, age : 0 .. MaxAgeSeconds]
        \cup [tag : {"bad", "naive", "missing"}, age : {0}]

\* backup['max_age']: a number of seconds, or a missing key (KeyError)
MaxAgeInputs == [tag : {"num"}, v : {-1, 0, 1, 2}] \cup [tag : {"missing"}, v : {0}]

NoDate == [tag |-> "missing", age |-> 0]
NoMaxAge == [tag |-> "missing", v |-> 0]
NoAgeFactor == [tag |-> "missing", v |-> 0]

\* artifacts carrying what get_backup_status_info reads (type, age_info)
StatusArtifacts ==
    [isdict : {TRUE}, type : Types, age_factor : AgeFactorInputs,
     date : {NoDate}, max_age : {NoMaxAge}]
        \cup [isdict : {TRUE}, type : {NoType},
              age_factor : {[tag |-> "num", v |-> 0]},
              date : {NoDate}, max_age : {NoMaxAge}]
        \cup [isdict : {FALSE}, type : {NoType}, age_factor : {NoAgeFactor},
              date : {NoDate}, max_age : {NoMaxAge}]

\* artifacts carrying what the backup-status view reads (date, max_age)
ColumnArtifacts ==
    [isdict : {TRUE}, type : {"config"}, age_factor : {NoAgeFactor},
     date : [tag : {"iso"}, age : 0 .. MaxAgeSeconds],
     max_age : [tag : {"num"}, v : {1, 2}]]
        \cup [isdict : {TRUE}, type : {"config"}, age_factor : {NoAgeFactor},
              date : [tag : {"bad", "naive", "missing"}, age : {0}],
              max_age : {[tag |-> "num", v |-> 1]}]
        \cup [isdict : {TRUE}, type : {"config"}, age_factor : {NoAgeFactor},
              date : {[tag |-> "iso", age |-> 3]},
              max_age : [tag : {"num"}, v : {-1, 0}] \cup {NoMaxAge}]

SeqsUpTo(S, n) == UNION {[1 .. k -> S] : k \in 0 .. n}

\* a JSON object holding (or not) a 'backup_list'
AbsentData == [tag |-> "absent", has_list |-> FALSE, backup_list |-> <<>>]
DictData(list) == [tag |-> "dict", has_list |-> TRUE, backup_list |-> list]
DictNoList == [tag |-> "dict", has_list |-> FALSE, backup_list |-> <<>>]
\* a truthy value that is not a dict (a string, a number): no .get
NoDictData == [tag |-> "nodict", has_list |-> FALSE, backup_list |-> <<>>]

\* one record of the backups dict; valid_schema is "True", "False", "None"
\* (JSON null) or "absent" (no such key)
BackupInfo(vs, bd, bjd) ==
    [valid_schema |-> vs, backup_data |-> bd, backup_json_data |-> bjd]
EmptyInfo == BackupInfo("absent", AbsentData, AbsentData)

StatusInfos ==
    {BackupInfo("True", DictData(l), AbsentData) : l \in SeqsUpTo(StatusArtifacts, MaxArtifacts)}
        \cup {EmptyInfo, BackupInfo("True", DictNoList, AbsentData),
              BackupInfo("True", AbsentData, AbsentData),
              BackupInfo("True", NoDictData, AbsentData)}

ColumnInfos ==
    {BackupInfo("True", AbsentData, DictData(l)) : l \in SeqsUpTo(ColumnArtifacts, MaxArtifacts)}
        \cup {BackupInfo(vs, AbsentData, DictData(<<a>>)) :
                vs \in {"False", "None", "absent"},
                a \in {x \in ColumnArtifacts : x.date.tag = "iso" /\ x.max_age = [tag |-> "num", v |-> 1]}}
        \cup {BackupInfo("True", AbsentData, DictNoList)}

EmptyMap == [t \in {} |-> 0]


\* ------------------------------------------------- status evaluation state
VARIABLES
    ev_hostname,    \* hostname argument of the evaluated function
    ev_backups,     \* backups argument: hostname -> backup_info
    ev_call,        \* "input" before the call, then the function applied
    ev_status,      \* record returned by a get_backup_status_info
    ev_column,      \* value returned by format_backup_status_value
    ev_chart,       \* value returned by a backup_status_*_chart_value
    ev_display      \* string returned by format_backup_display

evvars == <<ev_hostname, ev_backups, ev_call, ev_status, ev_column, ev_chart,
            ev_display>>

\* ---------------------------------------------------------- Python floats
AFNum(n) == [tag |-> "num", v |-> n]
AFInf == [tag |-> "inf", v |-> 0]

\* a < b on floats, float('inf') included
FloatLt(a, b) ==
    \/ a.tag = "num" /\ b.tag = "inf"
    \/ a.tag = "num" /\ b.tag = "num" /\ a.v < b.v

\* ----------------------------------- backup_formatter.get_backup_status_info
DEFAULT_STATUS_best == [status |-> 0, type_statuses |-> EmptyMap, worst_status |-> 0]

DEFAULT_STATUS == [status |-> 5, type_statuses |-> EmptyMap, worst_status |-> 5]

\* age_info = backup.get('age_info', {}), replaced by {} when not a dict;
\* float(age_info.get('age_factor', inf)), inf on TypeError / ValueError
float_age_factor(backup) ==
    LET age_info == IF backup.age_factor.tag = "nodict"
                    THEN NoAgeFactor ELSE backup.age_factor
    IN  CASE age_info.tag = "num" -> AFNum(age_info.v)
          [] age_info.tag = "missing" -> AFInf
          [] age_info.tag = "bad" -> AFInf

worst_age_factor_last(current_worst, age_factor) == age_factor

\* max(current_worst, age_factor): Python's max keeps its first argument
\* unless a later one is greater
worst_age_factor(current_worst, age_factor) ==
    IF FloatLt(current_worst, age_factor) THEN age_factor ELSE current_worst

\* the loop over backup_list filling type_age_factors
RECURSIVE type_age_factors(_, _)
type_age_factors(backup_list, acc) ==
    IF backup_list = <<>> THEN acc
    ELSE LET backup == Head(backup_list)
             rest == Tail(backup_list)
         IN  IF ~backup.isdict THEN type_age_factors(rest, acc)
             ELSE IF backup.type = NoType THEN type_age_factors(rest, acc)
             ELSE LET age_factor == float_age_factor(backup)
                      current_worst == IF backup.type \in DOMAIN acc
                                       THEN acc[backup.type]
                                       ELSE AFNum(0 - Scale)
                      worst == worst_age_factor(current_worst, age_factor)
                  IN  type_age_factors(rest,
                        [t \in DOMAIN acc \cup {backup.type} |->
                            IF t = backup.type THEN worst ELSE acc[t]])

status_of_age_factor_le(age_factor) ==
    IF ~FloatLt(AFNum(1 * Scale), age_factor) THEN 0
    ELSE IF ~FloatLt(AFNum(2 * Scale), age_factor) THEN 1
    ELSE IF ~FloatLt(AFNum(3 * Scale), age_factor) THEN 2
    ELSE IF ~FloatLt(AFNum(4 * Scale), age_factor) THEN 3
    ELSE IF ~FloatLt(AFNum(5 * Scale), age_factor) THEN 4
    ELSE 5

\* the if / elif chain on age_factor
status_of_age_factor(age_factor) ==
    IF FloatLt(age_factor, AFNum(1 * Scale)) THEN 0
    ELSE IF FloatLt(age_factor, AFNum(2 * Scale)) THEN 1
    ELSE IF FloatLt(age_factor, AFNum(3 * Scale)) THEN 2
    ELSE IF FloatLt(age_factor, AFNum(4 * Scale)) THEN 3
    ELSE IF FloatLt(age_factor, AFNum(5 * Scale)) THEN 4
    ELSE 5

worst_overall_status_min(type_statuses) ==
    LET vals == {type_statuses[t] : t \in DOMAIN type_statuses}
    IN  CHOOSE m \in vals : \A x \in vals : m <= x

\* worst_overall_status = 0, then max(worst_overall_status, status) per type
worst_overall_status(type_statuses) ==
    LET vals == {0} \cup {type_statuses[t] : t \in DOMAIN type_statuses}
    IN  CHOOSE m \in vals : \A x \in vals : x <= m

\* the guards before the loop: the backup_list the loop runs over, <<>> when
\* an early return of DEFAULT_STATUS is taken for a hostname that has a record
status_backup_list(backup_info) ==
    IF backup_info = EmptyInfo THEN <<>>
    ELSE IF backup_info.backup_data.tag = "absent" THEN <<>>
    ELSE IF ~backup_info.backup_data.has_list THEN <<>>
    ELSE backup_info.backup_data.backup_list

\* what the call gives when the body raised, with the exception propagated
status_except_reraise(hostname) ==
    [status |-> -1, type_statuses |-> EmptyMap, worst_status |-> -1]

\* `except Exception`: the error is printed and DEFAULT_STATUS returned
status_except(hostname) == DEFAULT_STATUS

get_backup_status_info(hostname, backups) ==
    IF hostname \notin DOMAIN backups THEN DEFAULT_STATUS
    ELSE IF backups[hostname].backup_data.tag = "nodict"
    THEN \* backup_data.get raises AttributeError
         status_except(hostname)
    ELSE LET backup_list == status_backup_list(backups[hostname])
             factors == type_age_factors(backup_list, EmptyMap)
             type_statuses == [t \in DOMAIN factors |-> status_of_age_factor(factors[t])]
             worst == worst_overall_status(type_statuses)
         IN  IF backup_list = <<>> THEN DEFAULT_STATUS
             ELSE IF DOMAIN factors = {} THEN DEFAULT_STATUS
             ELSE [status |-> worst, type_statuses |-> type_statuses,
                   worst_status |-> worst]

\* ------------------------------------- backup_formatter.format_backup_display
\* the returned string: its marker, or the emoji of worst_status (numbered by
\* tier) followed by the sorted type names
format_backup_display(status_info) ==
    IF status_info = EmptyMap
    THEN \* `not status_info`: None or an empty dict
         [marker |-> "No backup.json", emoji |-> -1, types |-> {}]
    ELSE IF DOMAIN status_info.type_statuses = {}
    THEN [marker |-> "Empty/invalid backup.json", emoji |-> -1, types |-> {}]
    ELSE [marker |-> "",
          emoji |-> IF status_info.worst_status \in 0 .. 4
                    THEN status_info.worst_status ELSE 5,
          types |-> DOMAIN status_info.type_statuses]

\* ------------------------------------- device_details.get_backup_status_info
\* same guards and loop; the tiers are age_factor == 0, == 1, anything else
details_status_of_age_factor(age_factor) ==
    IF age_factor = AFNum(0) THEN 0
    ELSE IF age_factor = AFNum(1 * Scale) THEN 1
    ELSE 2

details_get_backup_status_info(hostname, backups) ==
    IF hostname \notin DOMAIN backups THEN DEFAULT_STATUS
    ELSE IF backups[hostname].backup_data.tag = "nodict" THEN DEFAULT_STATUS
    ELSE LET backup_list == status_backup_list(backups[hostname])
             factors == type_age_factors(backup_list, EmptyMap)
             type_statuses == [t \in DOMAIN factors |->
                                 details_status_of_age_factor(factors[t])]
             worst == worst_overall_status(type_statuses)
         IN  IF backup_list = <<>> THEN DEFAULT_STATUS
             ELSE IF DOMAIN factors = {} THEN DEFAULT_STATUS
             ELSE [status |-> worst, type_statuses |-> type_statuses,
                   worst_status |-> worst]


\* --------------------------- backup_status_column.format_backup_status_value
Returned(code, text) == [kind |-> "return", code |-> code, text |-> text]
Raised(exc) == [kind |-> "raise", code |-> 0, text |-> exc]

\* get_backup_age_status(backup['date'], backup['max_age']), the subscripts
\* of the call included: int(age_seconds // max_age), or the exception
get_backup_age_status(backup) ==
    CASE backup.date.tag = "missing" -> Raised("KeyError")
      [] backup.max_age.tag = "missing" -> Raised("KeyError")
      [] backup.date.tag = "bad" -> Raised("ValueError")
      [] backup.date.tag = "naive" -> Raised("TypeError")
      [] backup.max_age.v = 0 -> Raised("ZeroDivisionError")
      [] backup.max_age.v > 0 ->
            Returned(backup.date.age \div backup.max_age.v, "")
      [] OTHER ->
            \* floor division by a negative max_age
            Returned(0 - ((backup.date.age + (0 - backup.max_age.v) - 1)
                            \div (0 - backup.max_age.v)), "")

\* the loop over backup_list: worst_age_status = min(worst_age_status,
\* age_status); a ValueError returns "Bad date format"; any other exception
\* reaches st.error, and st is not a name of the module (NameError)
RECURSIVE column_loop(_, _)
column_loop(backup_list, worst_age_status) ==
    IF backup_list = <<>> THEN [kind |-> "end", worst |-> worst_age_status]
    ELSE LET age_status == get_backup_age_status(Head(backup_list))
         IN  IF age_status.kind = "return"
             THEN column_loop(Tail(backup_list),
                    IF FloatLt(AFNum(age_status.code), worst_age_status)
                    THEN AFNum(age_status.code) ELSE worst_age_status)
             ELSE IF age_status.text = "ValueError"
             THEN [kind |-> "bad_date", worst |-> worst_age_status]
             ELSE [kind |-> "raise", worst |-> worst_age_status]

format_backup_status_value(hostname, backups) ==
    IF hostname \notin DOMAIN backups THEN Returned(-3, "No backup.json")
    ELSE LET backup_info == backups[hostname]
             valid_schema == IF backup_info.valid_schema = "absent"
                             THEN "True" ELSE backup_info.valid_schema
             backup_list == IF backup_info.backup_json_data.tag = "absent"
                            THEN <<>>
                            ELSE backup_info.backup_json_data.backup_list
             loop == column_loop(backup_list, AFInf)
             worst == loop.worst
         IN  IF valid_schema \in {"False", "None"}
             THEN Returned(-2, "Bad backup.json")
             ELSE IF loop.kind = "bad_date" THEN Returned(-1, "Bad date format")
             ELSE IF loop.kind = "raise" THEN Raised("NameError")
             ELSE IF FloatLt(worst, AFNum(1)) THEN Returned(0, "OK")
             ELSE IF FloatLt(worst, AFNum(2)) THEN Returned(1, "Warning")
             ELSE IF FloatLt(worst, AFNum(3)) THEN Returned(2, "Attention")
             ELSE IF FloatLt(worst, AFNum(4)) THEN Returned(3, "Severe")
             ELSE IF FloatLt(worst, AFNum(5)) THEN Returned(4, "Critical")
             ELSE Returned(5, "Failure")

\* ------------------- backup_status_bar_chart / backup_status_pie_chart values
\* a // b on a non-negative a and a non-zero b, rounding towards minus infinity
floor_div(a, b) ==
    IF b > 0 THEN a \div b ELSE 0 - ((a + (0 - b) - 1) \div (0 - b))

\* the body of the try for one backup: fromisoformat(backup['date']), the
\* subtraction from an aware now, then int(age_seconds // backup['max_age'])
chart_age_status(backup) ==
    CASE backup.date.tag = "missing" -> Raised("KeyError")
      [] backup.date.tag = "bad" -> Raised("ValueError")
      [] backup.date.tag = "naive" -> Raised("TypeError")
      [] backup.max_age.tag = "missing" -> Raised("KeyError")
      [] backup.max_age.v = 0 -> Raised("ZeroDivisionError")
      [] OTHER -> Returned(floor_div(backup.date.age, backup.max_age.v), "")

\* the loop: worst_age_status = max(worst_age_status, age_status); ValueError
\* and TypeError return -1, any other exception leaves the function
RECURSIVE chart_loop(_, _)
chart_loop(backup_list, worst_age_status) ==
    IF backup_list = <<>>
    THEN [kind |-> "end", worst |-> worst_age_status, exc |-> ""]
    ELSE LET age_status == chart_age_status(Head(backup_list))
         IN  IF age_status.kind = "return"
             THEN chart_loop(Tail(backup_list),
                    IF age_status.code > worst_age_status
                    THEN age_status.code ELSE worst_age_status)
             ELSE IF age_status.text \in {"ValueError", "TypeError"}
             THEN [kind |-> "bad_date", worst |-> worst_age_status, exc |-> ""]
             ELSE [kind |-> "raise", worst |-> worst_age_status,
                   exc |-> age_status.text]

backup_status_bar_chart_value(hostname, backups) ==
    IF hostname \notin DOMAIN backups THEN Returned(-3, "")
    ELSE LET backup_info == backups[hostname]
             valid_schema == IF backup_info.valid_schema = "absent"
                             THEN "None" ELSE backup_info.valid_schema
             loop == chart_loop(backup_info.backup_json_data.backup_list, 0)
         IN  IF valid_schema \in {"False", "None"} THEN Returned(-2, "")
             ELSE IF ~backup_info.backup_json_data.has_list
             THEN Raised("KeyError")
             ELSE IF loop.kind = "bad_date" THEN Returned(-1, "")
             ELSE IF loop.kind = "raise" THEN Raised(loop.exc)
             ELSE Returned(IF loop.worst > 5 THEN 5 ELSE loop.worst, "")

backup_status_pie_chart_value(hostname, backups) ==
    IF hostname \notin DOMAIN backups THEN Returned(-3, "")
    ELSE LET backup_info == backups[hostname]
             valid_schema == IF backup_info.valid_schema = "absent"
                             THEN "None" ELSE backup_info.valid_schema
             loop == chart_loop(backup_info.backup_json_data.backup_list, 0)
         IN  IF valid_schema \in {"False", "None"} THEN Returned(-2, "")
             ELSE IF ~backup_info.backup_json_data.has_list
             THEN Raised("KeyError")
             ELSE IF loop.kind = "bad_date" THEN Returned(-1, "")
             ELSE IF loop.kind = "raise" THEN Raised(loop.exc)
             ELSE Returned(IF loop.worst > 5 THEN 5 ELSE loop.worst, "")

\* ------------------------------------------- evaluation of the pure functions
NoStatus == [status |-> -1, type_statuses |-> EmptyMap, worst_status |-> -1]
NoColumn == [kind |-> "none", code |-> 0, text |-> ""]
NoDisplay == [marker |-> "none", emoji |-> -1, types |-> {}]
NoChart == [kind |-> "none", code |-> 0, text |-> ""]

\* ------------------------------------------------------------ snapshot store
\* Redis as a dict from key to stored string; a key is <<namespace, name>>,
\* "device:<hostname>" being <<"device", hostname>>
S3BackupsKey == <<"s3_backups", "">>
S3ComplianceKey == <<"s3_compliance", "">>
DeviceKey(hostname) == <<"device", hostname>>

\* json.dumps / json.loads: the stored value is the serialised document
dumps(value) == [json |-> value]
loads(string) == string.json

\* redis_client.set(key, value)
RedisSet(store, key, value) ==
    [k \in DOMAIN store \cup {key} |-> IF k = key THEN value ELSE store[k]]

\* redis_client.get(key): the value in a singleton, or {} for None
RedisGet(store, key) == IF key \in DOMAIN store THEN {store[key]} ELSE {}

\* redis_client.keys("device:*")
RedisKeys(store) == {k \in DOMAIN store : k[1] = "device"}

\* a delete that removes nothing
RedisDelete_none(store, keys) == store

\* redis_client.delete(*keys)
RedisDelete(store, keys) == [k \in DOMAIN store \ keys |-> store[k]]

\* ------------------------------------------------------------ object storage
\* what get_object + json.loads give for one key: an error (unreadable or
\* undecodable), a falsy document, a schema template, a backup.json payload
ErrorBody == [tag |-> "error", wellformed |-> FALSE, accepts |-> {}, id |-> "",
              data |-> AbsentData]
FalsyBody == [tag |-> "falsy", wellformed |-> FALSE, accepts |-> {}, id |-> "",
              data |-> AbsentData]
TemplateBody(wellformed, accepts) ==
    [tag |-> "schema", wellformed |-> wellformed, accepts |-> accepts, id |-> "",
     data |-> AbsentData]
PayloadBody(id, data) ==
    [tag |-> "payload", wellformed |-> FALSE, accepts |-> {}, id |-> id,
     data |-> data]

TemplateObject(device_class, vendor, body) ==
    [parts |-> <<"backups", device_class, vendor, "template.json">>, body |-> body]
BackupObject(device_class, vendor, hostname, body) ==
    [parts |-> <<"backups", device_class, vendor, hostname, "backup.json">>,
     body |-> body]

\* get_s3_file_content: None on any exception
get_s3_file_content(obj) == obj.body
IsTruthy(content) == content.tag \notin {"error", "falsy"}

\* first loop: templates["<device_class>/<vendor>"] = template_data
\* the first loop with the template stored for every vendor of the class
RECURSIVE load_templates_any_vendor(_, _)
load_templates_any_vendor(contents, templates) ==
    IF contents = <<>> THEN templates
    ELSE LET obj == Head(contents)
             parts == obj.parts
             template_data == get_s3_file_content(obj)
             template_keys == {<<parts[2], vendor>> : vendor \in {"cisco", "juniper"}}
         IN  IF Len(parts) = 4 /\ parts[4] = "template.json" /\ IsTruthy(template_data)
             THEN load_templates_any_vendor(Tail(contents),
                    [k \in DOMAIN templates \cup template_keys |->
                        IF k \in template_keys THEN template_data ELSE templates[k]])
             ELSE load_templates_any_vendor(Tail(contents), templates)

RECURSIVE load_templates(_, _)
load_templates(contents, templates) ==
    IF contents = <<>> THEN templates
    ELSE LET obj == Head(contents)
             parts == obj.parts
             template_data == get_s3_file_content(obj)
             template_key == <<parts[2], parts[3]>>
         IN  IF Len(parts) = 4 /\ parts[4] = "template.json" /\ IsTruthy(template_data)
             THEN load_templates(Tail(contents),
                    [k \in DOMAIN templates \cup {template_key} |->
                        IF k = template_key THEN template_data ELSE templates[k]])
             ELSE load_templates(Tail(contents), templates)

\* validation skipped: the record keeps the None it was created with
validate_skipped(instance, schema) == "None"

\* jsonschema.validate(instance, schema): "True", "ValidationError", or
\* "SchemaError" when the template itself is not a valid schema
validate(instance, schema) ==
    IF schema.tag # "schema" \/ ~schema.wellformed THEN "SchemaError"
    ELSE IF instance.id \in schema.accepts THEN "True"
    ELSE "ValidationError"

\* the second loop keeping the first record of a hostname (setdefault)
RECURSIVE load_backups_keep_first(_, _, _)
load_backups_keep_first(contents, templates, backups) ==
    IF contents = <<>> THEN [kind |-> "return", backups |-> backups]
    ELSE LET obj == Head(contents)
             parts == obj.parts
             backup_data == get_s3_file_content(obj)
             template_key == <<parts[2], parts[3]>>
             hostname == parts[4]
             has_schema == template_key \in DOMAIN templates
             outcome == IF has_schema
                        THEN validate(backup_data, templates[template_key])
                        ELSE "None"
             record == [device_class |-> parts[2], vendor |-> parts[3],
                        schema |-> has_schema,
                        valid_schema |-> IF outcome = "ValidationError"
                                         THEN "False" ELSE outcome,
                        backup_json_data |-> backup_data.data]
         IN  IF Len(parts) = 5 /\ parts[5] = "backup.json" /\ IsTruthy(backup_data)
             THEN IF outcome = "SchemaError"
                  THEN [kind |-> "raise", backups |-> backups]
                  ELSE load_backups_keep_first(Tail(contents), templates,
                         [h \in DOMAIN backups \cup {hostname} |->
                            IF h \in DOMAIN backups THEN backups[h] ELSE record])
             ELSE load_backups_keep_first(Tail(contents), templates, backups)

\* second loop: one record per backup.json whose content is truthy; only
\* ValidationError is caught around validate
RECURSIVE load_backups(_, _, _)
load_backups(contents, templates, backups) ==
    IF contents = <<>> THEN [kind |-> "return", backups |-> backups]
    ELSE LET obj == Head(contents)
             parts == obj.parts
             backup_data == get_s3_file_content(obj)
             template_key == <<parts[2], parts[3]>>
             hostname == parts[4]
             has_schema == template_key \in DOMAIN templates
             outcome == IF has_schema
                        THEN validate(backup_data, templates[template_key])
                        ELSE "None"
             record == [device_class |-> parts[2], vendor |-> parts[3],
                        schema |-> has_schema,
                        valid_schema |-> IF outcome = "ValidationError"
                                         THEN "False" ELSE outcome,
                        backup_json_data |-> backup_data.data]
         IN  IF Len(parts) = 5 /\ parts[5] = "backup.json" /\ IsTruthy(backup_data)
             THEN IF outcome = "SchemaError"
                  THEN [kind |-> "raise", backups |-> backups]
                  ELSE load_backups(Tail(contents), templates,
                         [h \in DOMAIN backups \cup {hostname} |->
                            IF h = hostname THEN record ELSE backups[h]])
             ELSE load_backups(Tail(contents), templates, backups)

\* get_s3_backups_data on the outcome of list_objects_v2: ClientError is
\* caught and gives {}; any other exception leaves the function
get_s3_backups_data(response) ==
    CASE response.tag = "ClientError" -> [kind |-> "return", backups |-> EmptyMap]
      [] response.tag = "EndpointConnectionError" ->
            [kind |-> "raise", backups |-> EmptyMap]
      [] OTHER ->
            load_backups(response.contents,
                         load_templates(response.contents, EmptyMap), EmptyMap)


\* inputs of the Backup Sync Job: what the bucket may list
SchemaGood == TemplateBody(TRUE, {"p1"})
SchemaBroken == TemplateBody(FALSE, {})
FreshArtifact ==
    [isdict |-> TRUE, type |-> "config", age_factor |-> NoAgeFactor,
     date |-> [tag |-> "iso", age |-> 0], max_age |-> [tag |-> "num", v |-> 1]]
StaleArtifact ==
    [isdict |-> TRUE, type |-> "config", age_factor |-> NoAgeFactor,
     date |-> [tag |-> "iso", age |-> 3], max_age |-> [tag |-> "num", v |-> 1]]
Payload1 == PayloadBody("p1", DictData(<<FreshArtifact>>))
Payload2 == PayloadBody("p2", DictData(<<StaleArtifact>>))
\* {type: config, date: now - 3600 s, max_age: 1800}, in units of 1800 s
AttentionArtifact ==
    [isdict |-> TRUE, type |-> "config", age_factor |-> NoAgeFactor,
     date |-> [tag |-> "iso", age |-> 2], max_age |-> [tag |-> "num", v |-> 1]]
Payload3 == PayloadBody("p3", DictData(<<AttentionArtifact>>))

S3Objects ==
    {TemplateObject("router", "cisco", SchemaGood),
     TemplateObject("router", "cisco", SchemaBroken),
     TemplateObject("router", "cisco", ErrorBody),
     BackupObject("router", "cisco", "r1", Payload1),
     BackupObject("router", "cisco", "r1", Payload2),
     BackupObject("router", "juniper", "r2", Payload1),
     BackupObject("router", "juniper", "r1", Payload3),
     BackupObject("router", "cisco", "r2", ErrorBody)}

\* longest listing drawn as an input
MaxObjects == 2

\* a bucket lists each key once
Listings ==
    {l \in SeqsUpTo(S3Objects, MaxObjects) :
        \A i, j \in 1 .. Len(l) : l[i].parts = l[j].parts => i = j}

S3Responses ==
    {[tag |-> "ok", contents |-> l] : l \in Listings}
        \cup {[tag |-> t, contents |-> <<>>] :
                t \in {"ClientError", "EndpointConnectionError"}}

\* ------------------------------------------ Backup Sync Job (s3_worker.main)
VARIABLES
    redis,            \* the store: key -> stored string
    s3_pc,            \* position of s3_worker.main
    s3_backups,       \* main's local s3_backups
    s3_compliance,    \* main's local s3_compliance
    s3_before,        \* value under 's3_backups' when the iteration began
    s3_fetch_failed,  \* the iteration's backup listing raised ClientError
    s3_response,      \* what list_objects_v2 gave get_s3_backups_data
    bs_pc,            \* reader of 's3_backups': "idle", "got", "shown"
    bs_backups,       \* the map the reader obtained
    bs_clean          \* no pass of the job began since the reader read

s3vars == <<s3_pc, s3_backups, s3_compliance, s3_before, s3_fetch_failed,
            s3_response>>
\* outside get_s3_backups_data there is no response
NoResponse == [tag |-> "none", contents |-> <<>>]
bsvars == <<bs_pc, bs_backups, bs_clean>>

\* `json.loads(backups_data) if backups_data else {}`
BackupsView(got) == IF got = {} THEN EmptyMap ELSE loads(CHOOSE v \in got : TRUE)

store_s3_data_in_redis_patch(store, data, redis_key) ==
    LET old == BackupsView(RedisGet(store, redis_key))
    IN  RedisSet(store, redis_key,
            dumps([h \in DOMAIN old \cup DOMAIN data |->
                     IF h \in DOMAIN data THEN data[h] ELSE old[h]]))

\* redis_client.set(redis_key, json.dumps(data)): one SET of the whole map
store_s3_data_in_redis(store, data, redis_key) ==
    RedisSet(store, redis_key, dumps(data))

\* ------------------------------- Inventory Sync Job (easynet_worker.main)
\* longest device list drawn as an input
MaxDevices == 2

\* a device record; hostname "" stands for a record without 'hostname'
NoHostname == ""
DeviceRecords ==
    [hostname : {"r1"}, rev : {1, 2}]
        \cup [hostname : {"r2"}, rev : {1}]
        \cup [hostname : {NoHostname}, rev : {1}]
DeviceLists == SeqsUpTo(DeviceRecords, MaxDevices)

VARIABLES
    inv_pc,           \* position of easynet_worker.main
    inv_data,         \* main's local easynet_data
    inv_existing,     \* existing_keys of store_easynet_data_in_redis
    inv_i,            \* index of the device the `for` loop is at
    inv_before,       \* the device:* keys and values when the iteration began
    inv_fetch_failed, \* get_easynet_data caught an exception and returned []
    inv_redis_failed, \* store_easynet_data_in_redis caught a RedisError
    rd_pc,            \* get_easynet_devices: "idle", "loop", "done", "error"
    rd_keys,          \* keys still to get
    rd_devices,       \* devices collected
    rd_clean,         \* no pass of the job began during the request
    api_call,         \* the last joined request: handler and hostname
    api_response      \* its response: HTTP status and body

invvars == <<inv_pc, inv_data, inv_existing, inv_i, inv_before, inv_fetch_failed,
             inv_redis_failed>>
rdvars == <<rd_pc, rd_keys, rd_devices, rd_clean, api_call, api_response>>

\* ------------------------------ the single-process worker (worker.py, asyncio)
VARIABLES
    w_gather,       \* main's asyncio.gather: "pending" or "failed"
    w_running,      \* the task holding the event loop's thread, or "none"
    w_easynet_pc,   \* easynet_task: "ready", "store", "set", "sleeping",
                    \* "blocked", "raised", "cancelled"
    w_s3_pc,        \* s3_task: "ready", "sleeping", "raised", "cancelled"
    w_data,         \* easynet_task's local easynet_data
    w_i             \* index of the item the `for` loop is at

wkvars == <<w_gather, w_running, w_easynet_pc, w_s3_pc, w_data, w_i>>

\* ---------------------------------------------------------- ConfigLoader
\* one setting, spelled in upper or in lower case by a source
ConfigSpellings == {"HOST", "host"}
\* str.upper on the names used here
Upper(key) ==
    CASE key = "host" -> "HOST"
      [] key = "prd" -> "PRD"
      [] OTHER -> key
\* the env argument the workers construct ConfigLoader with
ConfigEnv == "prd"

\* a YAML value: a scalar, null (v = "None"), or a mapping by environment
YamlScalar(v) == [tag |-> "scalar", v |-> v, items |-> EmptyMap]
YamlDict(items) == [tag |-> "dict", v |-> "None", items |-> items]
YamlValues ==
    {YamlScalar("y"), YamlScalar("None"),
     YamlDict([e \in {"PRD"} |-> "y"]), YamlDict([e \in {"DEV"} |-> "y"])}
\* settings.yaml: missing, empty, or holding one key
YamlFiles ==
    {[exists |-> FALSE, settings |-> EmptyMap], [exists |-> TRUE, settings |-> EmptyMap]}
        \cup {[exists |-> TRUE, settings |-> [k \in {key} |-> value]] :
                key \in ConfigSpellings, value \in YamlValues}
\* .env.<env>: missing, holding a line without '=', or one KEY=value line
EnvFiles ==
    {[tag |-> "missing", lines |-> <<>>], [tag |-> "malformed", lines |-> <<>>]}
        \cup {[tag |-> "ok", lines |-> <<[key |-> key, value |-> "f"]>>] :
                key \in ConfigSpellings}
\* os.environ when the process starts
Environs == {EmptyMap, [k \in {"HOST"} |-> "e"]}
DefaultsDicts == {EmptyMap, [k \in {"HOST"} |-> "d"], [k \in {"HOST"} |-> "None"]}
RequiredKeyLists == {<<>>, <<"HOST">>, <<"host">>}
ConfigInputs ==
    [yaml : YamlFiles, env_file : EnvFiles, environ : Environs,
     defaults : DefaultsDicts, required_keys : RequiredKeyLists]

VARIABLES
    cfg_input,      \* the files, environment and arguments ConfigLoader sees
    cfg_result      \* pc "new" before construction, then "done" or "exit"

cfgvars == <<cfg_input, cfg_result>>

\* dict.update
DictUpdate(config, new) ==
    [k \in DOMAIN config \cup DOMAIN new |->
        IF k \in DOMAIN new THEN new[k] ELSE config[k]]
\* os.getenv(key): None when the variable is not set; names are case-sensitive
getenv(environ, key) == IF key \in DOMAIN environ THEN environ[key] ELSE "None"
\* load_dotenv(env_file), override=False: a variable already set keeps its value
load_dotenv(environ, lines) ==
    [k \in DOMAIN environ \cup {lines[i].key : i \in 1 .. Len(lines)} |->
        IF k \in DOMAIN environ THEN environ[k]
        ELSE lines[CHOOSE i \in 1 .. Len(lines) : lines[i].key = k].value]
\* self.required_keys = [key.upper() for key in required_keys]
required_keys_upper(required_keys) ==
    {Upper(required_keys[i]) : i \in 1 .. Len(required_keys)}

\* value.get(self.env.upper()) for a mapping, the value itself otherwise
yaml_value(value) ==
    IF value.tag = "dict"
    THEN IF Upper(ConfigEnv) \in DOMAIN value.items
         THEN value.items[Upper(ConfigEnv)] ELSE "None"
    ELSE value.v

\* every key of the file goes into config, None values included
load_yaml_settings(self, input) ==
    LET settings == input.yaml.settings
        filtered_settings ==
            [K \in {Upper(k) : k \in DOMAIN settings} |->
                yaml_value(settings[CHOOSE k \in DOMAIN settings : Upper(k) = K])]
    IN  IF ~input.yaml.exists \/ settings = EmptyMap THEN self
        ELSE [self EXCEPT !.config = DictUpdate(@, filtered_settings)]

\* the keys of the file are read back with os.getenv after load_dotenv; a
\* line without '=' raises ValueError at the unpacking
load_and_parse_env_settings(self, input) ==
    LET lines == input.env_file.lines
        env_file_keys == {Upper(lines[i].key) : i \in 1 .. Len(lines)}
        environ == load_dotenv(self.environ, lines)
        env_file_settings == [K \in env_file_keys |-> getenv(environ, K)]
        new_settings ==
            [K \in {k \in env_file_keys :
                      k \notin DOMAIN self.config /\ env_file_settings[k] # "None"} |->
                env_file_settings[K]]
    IN  CASE input.env_file.tag = "missing" -> self
          [] input.env_file.tag = "malformed" -> [self EXCEPT !.raised = TRUE]
          [] OTHER -> [self EXCEPT !.environ = environ,
                                   !.config = DictUpdate(@, new_settings)]

\* only the required keys are looked up in the environment
load_env_vars(self, input) ==
    LET env_vars == [K \in required_keys_upper(input.required_keys) |->
                        getenv(self.environ, K)]
        new_settings ==
            [K \in {k \in DOMAIN env_vars :
                      k \notin DOMAIN self.config /\ env_vars[k] # "None"} |->
                env_vars[K]]
    IN  [self EXCEPT !.config = DictUpdate(@, new_settings)]

apply_defaults(self, input) ==
    LET defaults_to_apply ==
            [k \in DOMAIN input.defaults \ DOMAIN self.config |-> input.defaults[k]]
    IN  [self EXCEPT !.config = DictUpdate(@, defaults_to_apply)]

\* raises ValueError when a required key is missing or None
verify_config(self, input) ==
    LET missing_keys ==
            {K \in required_keys_upper(input.required_keys) :
                K \notin DOMAIN self.config \/ self.config[K] = "None"}
    IN  [self EXCEPT !.raised = (missing_keys # {})]

\* ConfigLoader.__init__: the five steps in order; ValueError gives sys.exit(1)
ConfigLoader(input) ==
    LET new == [config |-> EmptyMap, environ |-> input.environ, raised |-> FALSE]
        parsed == load_and_parse_env_settings(load_yaml_settings(new, input), input)
        verified == verify_config(
                        apply_defaults(load_env_vars(parsed, input), input), input)
        self == IF parsed.raised THEN parsed ELSE verified
    IN  [pc |-> IF self.raised THEN "exit" ELSE "done", config |-> self.config]

NoConfigInput ==
    [yaml |-> [exists |-> FALSE, settings |-> EmptyMap],
     env_file |-> [tag |-> "missing", lines |-> <<>>], environ |-> EmptyMap,
     defaults |-> EmptyMap, required_keys |-> <<>>]
NotConstructed == [pc |-> "new", config |-> EmptyMap]

\* config_loader = ConfigLoader(...), run once when a worker starts
ConfigLoaderInit ==
    /\ cfg_result.pc = "new"
    /\ cfg_result' = ConfigLoader(cfg_input)
    /\ UNCHANGED <<cfg_input, evvars, redis, s3vars, bsvars, invvars, rdvars, wkvars>>

vars == <<evvars, redis, s3vars, bsvars, invvars, rdvars, wkvars, cfgvars>>

\* the device:* part of the store
DeviceSnapshot(store) == [k \in RedisKeys(store) |-> store[k]]
DeviceSet(snapshot) == {loads(snapshot[k]) : k \in DOMAIN snapshot}

\* the device set a complete publish of `devices` leaves in the store
PublishedSet(devices) ==
    {devices[i] : i \in {j \in 1 .. Len(devices) :
        \A k \in (j + 1) .. Len(devices) : devices[k].hostname # devices[j].hostname}}


\* ------------------------------------------ Backup Sync Job: the steps
\* s3_backups = get_s3_backups_data()
S3GetBackups ==
    /\ s3_pc = "get_backups"
    /\ \E response \in S3Responses :
         LET got == get_s3_backups_data(response)
         IN  /\ s3_fetch_failed' = (response.tag = "ClientError")
             /\ s3_response' = response
             /\ IF got.kind = "raise"
                THEN s3_pc' = "dead" /\ UNCHANGED s3_backups
                ELSE s3_pc' = "get_compliance" /\ s3_backups' = got.backups
    /\ s3_before' = RedisGet(redis, S3BackupsKey)
    /\ bs_clean' = FALSE
    /\ UNCHANGED <<wkvars, cfgvars>>
    /\ UNCHANGED <<redis, s3_compliance, bs_pc, bs_backups, evvars, invvars, rdvars>>

\* s3_compliance = get_s3_compliance_data(): the listings drawn here hold no
\* operational_status.json or validation.json, so the result is {} unless
\* the listing call raises something other than ClientError
S3GetCompliance ==
    /\ s3_pc = "get_compliance"
    /\ \E tag \in {"ok", "ClientError", "EndpointConnectionError"} :
         IF tag = "EndpointConnectionError"
         THEN s3_pc' = "dead" /\ UNCHANGED s3_compliance
         ELSE s3_pc' = "store_backups" /\ s3_compliance' = EmptyMap
    /\ s3_response' = NoResponse
    /\ UNCHANGED <<wkvars, cfgvars>>
    /\ UNCHANGED <<redis, s3_backups, s3_before, s3_fetch_failed, bsvars,
                   evvars, invvars, rdvars>>

\* store_s3_data_in_redis(s3_backups, "s3_backups"); RedisError is caught
S3StoreBackups ==
    /\ s3_pc = "store_backups"
    /\ \E redis_ok \in BOOLEAN :
         redis' = IF redis_ok
                  THEN store_s3_data_in_redis(redis, s3_backups, S3BackupsKey)
                  ELSE redis
    /\ s3_pc' = "store_compliance"
    /\ UNCHANGED <<wkvars, cfgvars>>
    /\ UNCHANGED <<s3_backups, s3_compliance, s3_before, s3_fetch_failed,
                   s3_response, bsvars, evvars, invvars, rdvars>>

\* store_s3_data_in_redis(s3_compliance, "s3_compliance")
S3StoreCompliance ==
    /\ s3_pc = "store_compliance"
    /\ \E redis_ok \in BOOLEAN :
         redis' = IF redis_ok
                  THEN store_s3_data_in_redis(redis, s3_compliance, S3ComplianceKey)
                  ELSE redis
    /\ s3_pc' = "sleep"
    /\ UNCHANGED <<wkvars, cfgvars>>
    /\ UNCHANGED <<s3_backups, s3_compliance, s3_before, s3_fetch_failed,
                   s3_response, bsvars, evvars, invvars, rdvars>>

\* time.sleep(600), then the next pass of `while True`
S3Sleep ==
    /\ s3_pc = "sleep"
    /\ s3_pc' = "get_backups"
    /\ UNCHANGED <<wkvars, cfgvars>>
    /\ UNCHANGED <<redis, s3_backups, s3_compliance, s3_before, s3_fetch_failed,
                   s3_response, bsvars, evvars, invvars, rdvars>>

\* get_devices_backup_status: backups_data = redis_client.get("s3_backups");
\* backups = json.loads(backups_data) if backups_data else {}
ReadS3Backups ==
    /\ bs_pc = "idle"
    /\ bs_pc' = "got"
    /\ bs_backups' = BackupsView(RedisGet(redis, S3BackupsKey))
    /\ bs_clean' = TRUE
    /\ UNCHANGED <<wkvars, cfgvars>>
    /\ UNCHANGED <<redis, s3vars, evvars, invvars, rdvars>>

\* what the views find in a published record: the keys valid_schema and
\* backup_json_data; the job publishes no backup_data key
ViewInfo(record) ==
    BackupInfo(record.valid_schema, AbsentData, record.backup_json_data)

\* backup_status_view on the loaded backups: the status of one hostname as
\* each status function gives it
ViewEvaluate ==
    /\ bs_pc = "got"
    /\ bs_pc' = "shown"
    /\ \E hostname \in Hostnames :
         LET backups == [h \in DOMAIN bs_backups |-> ViewInfo(bs_backups[h])]
         IN  /\ ev_hostname' = hostname
             /\ ev_backups' = backups
             /\ ev_status' = get_backup_status_info(hostname, backups)
             /\ ev_column' = format_backup_status_value(hostname, backups)
             /\ ev_chart' = backup_status_bar_chart_value(hostname, backups)
             /\ ev_display' = format_backup_display(get_backup_status_info(hostname, backups))
    /\ ev_call' = "view"
    /\ UNCHANGED <<wkvars, cfgvars>>
    /\ UNCHANGED <<redis, s3vars, bs_backups, bs_clean, invvars, rdvars>>

\* the request ends; the next one starts from scratch
ReadS3Return ==
    /\ bs_pc \in {"got", "shown"}
    /\ bs_pc' = "idle"
    /\ bs_backups' = EmptyMap
    /\ bs_clean' = FALSE
    /\ ev_hostname' = "r1"
    /\ ev_backups' = EmptyMap
    /\ ev_call' = "idle"
    /\ ev_status' = NoStatus
    /\ ev_column' = NoColumn
    /\ ev_chart' = NoChart
    /\ ev_display' = NoDisplay
    /\ UNCHANGED <<wkvars, cfgvars>>
    /\ UNCHANGED <<redis, s3vars, invvars, rdvars>>

\* --------------------------------------- Inventory Sync Job: the steps
\* easynet_data = get_easynet_data(): the device list, or [] when the
\* EasyNet call raised, data.json is missing or is not valid JSON
InvGetData ==
    /\ inv_pc = "get"
    /\ \/ /\ \E devices \in DeviceLists :
               inv_data' = devices /\ inv_fetch_failed' = FALSE
          /\ inv_pc' = "keys"
       \/ inv_data' = <<>> /\ inv_fetch_failed' = TRUE /\ inv_pc' = "keys"
       \/ \* production: requests.post / requests.get are called without a
          \* timeout, and the API never answers
          inv_data' = <<>> /\ inv_fetch_failed' = FALSE /\ inv_pc' = "blocked"
    /\ inv_before' = DeviceSnapshot(redis)
    /\ inv_redis_failed' = FALSE
    /\ rd_clean' = FALSE
    /\ UNCHANGED <<wkvars, cfgvars>>
    /\ UNCHANGED <<redis, inv_existing, inv_i, rd_pc, rd_keys, rd_devices,
                   api_call, api_response, evvars, s3vars, bsvars>>

\* where store_easynet_data_in_redis goes once the old keys are dealt with
AfterDelete == IF Len(inv_data) = 0 THEN "sleep" ELSE "set"

\* existing_keys = redis_client.keys("device:*"); RedisError ends the store
InvKeys ==
    /\ inv_pc = "keys"
    /\ \E redis_ok \in BOOLEAN :
         IF redis_ok
         THEN /\ UNCHANGED inv_redis_failed
              /\ inv_existing' = RedisKeys(redis)
              /\ inv_pc' = IF RedisKeys(redis) # {} THEN "delete" ELSE AfterDelete
         ELSE inv_pc' = "sleep" /\ UNCHANGED inv_existing
              /\ inv_redis_failed' = TRUE
    /\ UNCHANGED <<wkvars, cfgvars>>
    /\ UNCHANGED <<redis, inv_data, inv_i, inv_before, inv_fetch_failed, rdvars,
                   evvars, s3vars, bsvars>>

\* redis_client.delete(*existing_keys)
InvDelete ==
    /\ inv_pc = "delete"
    /\ \E redis_ok \in BOOLEAN :
         IF redis_ok
         THEN /\ redis' = RedisDelete(redis, inv_existing)
              /\ inv_pc' = AfterDelete
              /\ UNCHANGED inv_redis_failed
         ELSE inv_pc' = "sleep" /\ inv_redis_failed' = TRUE /\ UNCHANGED redis
    /\ UNCHANGED <<wkvars, cfgvars>>
    /\ UNCHANGED <<inv_data, inv_existing, inv_i, inv_before, inv_fetch_failed,
                   rdvars, evvars, s3vars, bsvars>>

\* one turn of `for device in devices`: device['hostname'] raises KeyError,
\* which nothing catches; redis_client.set may raise RedisError, caught
InvSet ==
    /\ inv_pc = "set"
    /\ LET device == inv_data[inv_i]
       IN  IF device.hostname = NoHostname
           THEN inv_pc' = "dead" /\ UNCHANGED <<redis, inv_i, inv_redis_failed>>
           ELSE \E redis_ok \in BOOLEAN :
                  IF redis_ok
                  THEN /\ redis' = RedisSet(redis, DeviceKey(device.hostname),
                                            dumps(device))
                       /\ inv_i' = inv_i + 1
                       /\ inv_pc' = IF inv_i = Len(inv_data) THEN "sleep" ELSE "set"
                       /\ UNCHANGED inv_redis_failed
                  ELSE /\ inv_pc' = "sleep" /\ inv_redis_failed' = TRUE
                       /\ UNCHANGED <<redis, inv_i>>
    /\ UNCHANGED <<wkvars, cfgvars>>
    /\ UNCHANGED <<inv_data, inv_existing, inv_before, inv_fetch_failed, rdvars,
                   evvars, s3vars, bsvars>>

\* time.sleep(30), then the next pass of `while True`; the locals of
\* store_easynet_data_in_redis are gone
InvSleep ==
    /\ inv_pc = "sleep"
    /\ inv_pc' = "get"
    /\ inv_existing' = {}
    /\ inv_i' = 1
    /\ UNCHANGED <<wkvars, cfgvars>>
    /\ UNCHANGED <<redis, inv_data, inv_before, inv_fetch_failed,
                   inv_redis_failed, rdvars, evvars, s3vars, bsvars>>

\* ------------------------------------------- main.get_easynet_devices
\* keys = redis_client.keys("device:*")
RdKeys ==
    /\ rd_pc \in {"idle", "done", "error"}
    /\ rd_keys' = RedisKeys(redis)
    /\ rd_devices' = {}
    /\ rd_clean' = TRUE
    /\ rd_pc' = IF RedisKeys(redis) = {} THEN "done" ELSE "loop"
    /\ UNCHANGED <<wkvars, cfgvars>>
    /\ UNCHANGED <<redis, invvars, api_call, api_response, evvars, s3vars, bsvars>>

\* device_data = redis_client.get(key); appended when not None
RdGet ==
    /\ rd_pc = "loop"
    /\ \E key \in rd_keys :
         /\ rd_devices' = rd_devices \cup {loads(v) : v \in RedisGet(redis, key)}
         /\ rd_keys' = rd_keys \ {key}
         /\ rd_pc' = IF rd_keys = {key} THEN "done" ELSE "loop"
    /\ UNCHANGED <<wkvars, cfgvars>>
    /\ UNCHANGED <<redis, invvars, rd_clean, api_call, api_response, evvars,
                   s3vars, bsvars>>

\* a RedisError in the handler: HTTP 500
RdError ==
    /\ rd_pc = "loop"
    /\ rd_pc' = "error"
    /\ rd_keys' = {}
    /\ rd_devices' = {}
    /\ UNCHANGED <<wkvars, cfgvars>>
    /\ UNCHANGED <<redis, invvars, rd_clean, api_call, api_response, evvars,
                   s3vars, bsvars>>

\* ------------------------------------------- worker.py: the two tasks
\* the rest of the process: everything worker.py does not touch
NotWorker == <<evvars, s3vars, bsvars, invvars, rdvars, cfgvars>>

\* a task's exception reaches gather, which hands it to main
TaskRaised == w_gather' = "failed" /\ w_running' = "none"

\* easynet_data = await get_easynet_data(): no suspension point inside, so
\* the task keeps the thread; nothing is caught (a missing or invalid
\* data.json, a malformed API answer); requests has no timeout
WEasynetFetch ==
    /\ w_easynet_pc = "ready" /\ w_running = "none"
    /\ \/ \E devices \in DeviceLists :
            /\ w_data' = devices
            /\ w_easynet_pc' = "store"
            /\ w_running' = "easynet"
            /\ UNCHANGED w_gather
       \/ w_easynet_pc' = "raised" /\ TaskRaised /\ UNCHANGED w_data
       \/ /\ w_easynet_pc' = "blocked"
          /\ w_running' = "easynet"
          /\ UNCHANGED <<w_data, w_gather>>
    /\ UNCHANGED <<redis, w_s3_pc, w_i, NotWorker>>

\* existing_keys = redis_client.keys("device:*") and the delete; a RedisError
\* is not caught
WEasynetDelete ==
    /\ w_easynet_pc = "store" /\ w_running = "easynet"
    /\ \E redis_ok \in BOOLEAN :
         IF redis_ok
         THEN /\ redis' = RedisDelete(redis, RedisKeys(redis))
              /\ IF Len(w_data) = 0
                 THEN w_easynet_pc' = "sleeping" /\ w_running' = "none"
                 ELSE w_easynet_pc' = "set" /\ UNCHANGED w_running
              /\ UNCHANGED w_gather
         ELSE w_easynet_pc' = "raised" /\ TaskRaised /\ UNCHANGED redis
    /\ UNCHANGED <<w_s3_pc, w_data, w_i, NotWorker>>

\* one turn of `for item in easynet_data`; after the last one the task
\* reaches `await asyncio.sleep(30)` and gives the thread back
WEasynetSet ==
    /\ w_easynet_pc = "set" /\ w_running = "easynet"
    /\ LET item == w_data[w_i]
       IN  \E redis_ok \in BOOLEAN :
             IF item.hostname = NoHostname \/ ~redis_ok
             THEN /\ w_easynet_pc' = "raised" /\ TaskRaised
                  /\ UNCHANGED <<redis, w_i>>
             ELSE /\ redis' = RedisSet(redis, DeviceKey(item.hostname), dumps(item))
                  /\ IF w_i = Len(w_data)
                     THEN /\ w_easynet_pc' = "sleeping"
                          /\ w_running' = "none"
                          /\ w_i' = 1
                     ELSE /\ w_i' = w_i + 1
                          /\ UNCHANGED <<w_easynet_pc, w_running>>
                  /\ UNCHANGED w_gather
    /\ UNCHANGED <<w_s3_pc, w_data, NotWorker>>

\* the 30 seconds are over
WEasynetWake ==
    /\ w_easynet_pc = "sleeping"
    /\ w_easynet_pc' = "ready"
    /\ UNCHANGED <<redis, w_gather, w_running, w_s3_pc, w_data, w_i, NotWorker>>

\* one iteration of s3_task: get_s3_backups_list catches ClientError only; the
\* list is printed, nothing is stored; then `await asyncio.sleep(60)`
WS3List ==
    /\ w_s3_pc = "ready" /\ w_running = "none"
    /\ \E tag \in {"ok", "ClientError", "EndpointConnectionError"} :
         IF tag = "EndpointConnectionError"
         THEN w_s3_pc' = "raised" /\ TaskRaised
         ELSE w_s3_pc' = "sleeping" /\ UNCHANGED <<w_gather, w_running>>
    /\ UNCHANGED <<redis, w_easynet_pc, w_data, w_i, NotWorker>>

\* the 60 seconds are over
WS3Wake ==
    /\ w_s3_pc = "sleeping"
    /\ w_s3_pc' = "ready"
    /\ UNCHANGED <<redis, w_gather, w_running, w_easynet_pc, w_data, w_i, NotWorker>>

\* main's `await asyncio.gather(...)` raises the first exception and
\* asyncio.run cancels the tasks that are left
WMainExit ==
    /\ w_gather = "failed" /\ w_running = "none"
    /\ w_easynet_pc \notin {"raised", "cancelled"}
          \/ w_s3_pc \notin {"raised", "cancelled"}
    /\ w_easynet_pc' = IF w_easynet_pc = "raised" THEN "raised" ELSE "cancelled"
    /\ w_s3_pc' = IF w_s3_pc = "raised" THEN "raised" ELSE "cancelled"
    /\ UNCHANGED <<redis, w_gather, w_running, w_data, w_i, NotWorker>>

\* ------------------------- main.get_devices_backup_status, main.get_device
NoCall == [op |-> "none", hostname |-> ""]
NoApiResponse == [status |-> 0, body |-> EmptyMap]
\* the {} that backups.get(hostname, {}) gives for an unknown hostname
NoRecord ==
    [device_class |-> "", vendor |-> "", schema |-> FALSE, valid_schema |-> "None",
     backup_json_data |-> AbsentData]

backups_subscript(backups, hostname) ==
    IF hostname \in DOMAIN backups
    THEN [kind |-> "dict", record |-> backups[hostname]]
    ELSE [kind |-> "KeyError", record |-> NoRecord]

\* backups.get(hostname, {})
backups_get(backups, hostname) ==
    IF hostname \in DOMAIN backups
    THEN [kind |-> "dict", record |-> backups[hostname]]
    ELSE [kind |-> "empty", record |-> NoRecord]

\* the devices under the device:* keys, by device['hostname']
StoredDevices(store) ==
    LET found == {loads(store[k]) : k \in RedisKeys(store)}
    IN  [h \in {d.hostname : d \in found} |->
            CHOOSE d \in found : d.hostname = h]

\* get_devices_backup_status: one entry per device of the inventory, joined
\* with backups.get(hostname, {}); the published records have no has_backup,
\* backup.json_s3_date or backup_data key, so backup_files stays empty; any
\* exception gives HTTP 500
get_devices_backup_status(store) ==
    LET devices == StoredDevices(store)
        backups == BackupsView(RedisGet(store, S3BackupsKey))
        backup_info(h) == backups_get(backups, h)
    IN  IF \E h \in DOMAIN devices : backup_info(h).kind = "KeyError"
        THEN [status |-> 500, body |-> EmptyMap]
        ELSE [status |-> 200,
              body |-> [h \in DOMAIN devices |->
                          [device |-> devices[h],
                           schema |-> backup_info(h).record.schema,
                           backup_json |-> FALSE,
                           backup_json_date |-> "None",
                           valid_schema |-> backup_info(h).record.valid_schema,
                           backup_files |-> <<>>]]]

\* get_device: the HTTPException(404) raised inside the try is caught by
\* `except Exception` and becomes HTTP 500; a device found is returned with
\* backups.get(hostname, {}) as backup_info, {} when 's3_backups' is not set
get_device(store, hostname) ==
    LET device_data == RedisGet(store, DeviceKey(hostname))
        backup_data == RedisGet(store, S3BackupsKey)
        device_backup == backups_get(BackupsView(backup_data), hostname)
    IN  IF device_data = {} THEN [status |-> 500, body |-> EmptyMap]
        ELSE IF device_backup.kind = "KeyError"
        THEN [status |-> 500, body |-> EmptyMap]
        ELSE [status |-> 200,
              body |-> [device |-> loads(CHOOSE v \in device_data : TRUE),
                        has_backup_info |-> device_backup.kind = "dict",
                        backup_info |-> device_backup.record]]

GetDevicesBackupStatus ==
    /\ api_call' = [op |-> "get_devices_backup_status", hostname |-> ""]
    /\ api_response' = get_devices_backup_status(redis)
    /\ UNCHANGED <<wkvars, cfgvars>>
    /\ UNCHANGED <<redis, rd_pc, rd_keys, rd_devices, rd_clean, invvars, evvars,
                   s3vars, bsvars>>

GetDevice ==
    /\ \E hostname \in Hostnames :
         /\ api_call' = [op |-> "get_device", hostname |-> hostname]
         /\ api_response' = get_device(redis, hostname)
    /\ UNCHANGED <<wkvars, cfgvars>>
    /\ UNCHANGED <<redis, rd_pc, rd_keys, rd_devices, rd_clean, invvars, evvars,
                   s3vars, bsvars>>

\* ------------------------------------------- evaluation of the pure functions
EvalFormatter ==
    /\ ev_call = "input"
    /\ ev_call' = "formatter"
    /\ ev_status' = get_backup_status_info(ev_hostname, ev_backups)
    /\ UNCHANGED <<wkvars, cfgvars>>
    /\ UNCHANGED <<ev_hostname, ev_backups, ev_column, ev_chart, ev_display, redis,
                   s3vars,
                   bsvars, invvars, rdvars>>

EvalDetails ==
    /\ ev_call = "input"
    /\ ev_call' = "details"
    /\ ev_status' = details_get_backup_status_info(ev_hostname, ev_backups)
    /\ UNCHANGED <<wkvars, cfgvars>>
    /\ UNCHANGED <<ev_hostname, ev_backups, ev_column, ev_chart, ev_display, redis,
                   s3vars,
                   bsvars, invvars, rdvars>>

\* the table cell: format_backup_display(get_backup_status_info(...))
EvalDisplay ==
    /\ ev_call = "input"
    /\ ev_call' = "display"
    /\ ev_status' = get_backup_status_info(ev_hostname, ev_backups)
    /\ ev_display' = format_backup_display(ev_status')
    /\ UNCHANGED <<wkvars, cfgvars>>
    /\ UNCHANGED <<ev_hostname, ev_backups, ev_column, ev_chart, redis, s3vars,
                   bsvars, invvars, rdvars>>

EvalColumn ==
    /\ ev_call = "input"
    /\ ev_call' = "column"
    /\ ev_column' = format_backup_status_value(ev_hostname, ev_backups)
    /\ UNCHANGED <<wkvars, cfgvars>>
    /\ UNCHANGED <<ev_hostname, ev_backups, ev_status, ev_chart, ev_display, redis,
                   s3vars,
                   bsvars, invvars, rdvars>>

EvalBar ==
    /\ ev_call = "input"
    /\ ev_call' = "bar"
    /\ ev_chart' = backup_status_bar_chart_value(ev_hostname, ev_backups)
    /\ UNCHANGED <<wkvars, cfgvars>>
    /\ UNCHANGED <<ev_hostname, ev_backups, ev_status, ev_column, ev_display, redis,
                   s3vars,
                   bsvars, invvars, rdvars>>

EvalPie ==
    /\ ev_call = "input"
    /\ ev_call' = "pie"
    /\ ev_chart' = backup_status_pie_chart_value(ev_hostname, ev_backups)
    /\ UNCHANGED <<wkvars, cfgvars>>
    /\ UNCHANGED <<ev_hostname, ev_backups, ev_status, ev_column, ev_display, redis,
                   s3vars,
                   bsvars, invvars, rdvars>>

\* ------------------------------------------------------------ specifications
\* records the caller may hold for the hostname that is not asked about
OtherInfos == {EmptyInfo, BackupInfo("True", AbsentData, AbsentData)}

\* the workers and the API after start-up: an empty store, no request running
Init ==
    /\ redis = EmptyMap
    /\ s3_pc = "get_backups"
    /\ s3_backups = EmptyMap
    /\ s3_compliance = EmptyMap
    /\ s3_before = {}
    /\ s3_fetch_failed = FALSE
    /\ s3_response = NoResponse
    /\ bs_pc = "idle"
    /\ bs_backups = EmptyMap
    /\ bs_clean = FALSE
    /\ inv_pc = "get"
    /\ inv_data = <<>>
    /\ inv_existing = {}
    /\ inv_i = 1
    /\ inv_before = EmptyMap
    /\ inv_fetch_failed = FALSE
    /\ inv_redis_failed = FALSE
    /\ rd_pc = "idle"
    /\ rd_keys = {}
    /\ rd_devices = {}
    /\ rd_clean = FALSE
    /\ api_call = NoCall
    /\ api_response = NoApiResponse
    /\ w_gather = "pending"
    /\ w_running = "none"
    /\ w_easynet_pc = "ready"
    /\ w_s3_pc = "ready"
    /\ w_data = <<>>
    /\ w_i = 1
    /\ cfg_input = NoConfigInput
    /\ cfg_result = NotConstructed
    /\ ev_hostname = "r1"
    /\ ev_backups = EmptyMap
    /\ ev_call = "idle"
    /\ ev_status = NoStatus
    /\ ev_column = NoColumn
    /\ ev_chart = NoChart
    /\ ev_display = NoDisplay

\* a view about to evaluate one hostname against one backups dict
InitEval ==
    /\ redis = EmptyMap
    /\ s3_pc = "get_backups"
    /\ s3_backups = EmptyMap
    /\ s3_compliance = EmptyMap
    /\ s3_before = {}
    /\ s3_fetch_failed = FALSE
    /\ s3_response = NoResponse
    /\ bs_pc = "idle"
    /\ bs_backups = EmptyMap
    /\ bs_clean = FALSE
    /\ inv_pc = "get"
    /\ inv_data = <<>>
    /\ inv_existing = {}
    /\ inv_i = 1
    /\ inv_before = EmptyMap
    /\ inv_fetch_failed = FALSE
    /\ inv_redis_failed = FALSE
    /\ rd_pc = "idle"
    /\ rd_keys = {}
    /\ rd_devices = {}
    /\ rd_clean = FALSE
    /\ api_call = NoCall
    /\ api_response = NoApiResponse
    /\ w_gather = "pending"
    /\ w_running = "none"
    /\ w_easynet_pc = "ready"
    /\ w_s3_pc = "ready"
    /\ w_data = <<>>
    /\ w_i = 1
    /\ cfg_input = NoConfigInput
    /\ cfg_result = NotConstructed
    /\ ev_hostname \in Hostnames
    /\ \E info \in StatusInfos \cup ColumnInfos :
         \/ ev_backups = [h \in {"r1"} |-> info]
         \/ /\ info \in OtherInfos
            /\ ev_backups \in {EmptyMap, [h \in Hostnames |-> info]}
    /\ (ev_hostname = "r2" =>
            \A h \in DOMAIN ev_backups : ev_backups[h] \in OtherInfos)
    /\ ev_call = "input"
    /\ ev_status = NoStatus
    /\ ev_column = NoColumn
    /\ ev_chart = NoChart
    /\ ev_display = NoDisplay

\* the stores the API may find: what complete passes of the two jobs leave
RECURSIVE StoreDevices(_, _)
StoreDevices(store, devices) ==
    IF devices = <<>> THEN store
    ELSE StoreDevices(RedisSet(store, DeviceKey(Head(devices).hostname),
                               dumps(Head(devices))),
                      Tail(devices))
PublishedDeviceLists ==
    {l \in DeviceLists : \A i \in 1 .. Len(l) : l[i].hostname # NoHostname}
PublishedBackups ==
    {get_s3_backups_data(r).backups :
        r \in {x \in S3Responses : get_s3_backups_data(x).kind = "return"}}
ApiStores ==
    {StoreDevices(EmptyMap, l) : l \in PublishedDeviceLists}
        \cup {store_s3_data_in_redis(StoreDevices(EmptyMap, l), b, S3BackupsKey) :
                l \in PublishedDeviceLists, b \in PublishedBackups}

\* the API in front of a store the jobs have filled
InitApi ==
    /\ redis \in ApiStores
    /\ s3_pc = "get_backups"
    /\ s3_backups = EmptyMap
    /\ s3_compliance = EmptyMap
    /\ s3_before = {}
    /\ s3_fetch_failed = FALSE
    /\ s3_response = NoResponse
    /\ bs_pc = "idle"
    /\ bs_backups = EmptyMap
    /\ bs_clean = FALSE
    /\ inv_pc = "get"
    /\ inv_data = <<>>
    /\ inv_existing = {}
    /\ inv_i = 1
    /\ inv_before = EmptyMap
    /\ inv_fetch_failed = FALSE
    /\ inv_redis_failed = FALSE
    /\ rd_pc = "idle"
    /\ rd_keys = {}
    /\ rd_devices = {}
    /\ rd_clean = FALSE
    /\ api_call = NoCall
    /\ api_response = NoApiResponse
    /\ w_gather = "pending"
    /\ w_running = "none"
    /\ w_easynet_pc = "ready"
    /\ w_s3_pc = "ready"
    /\ w_data = <<>>
    /\ w_i = 1
    /\ cfg_input = NoConfigInput
    /\ cfg_result = NotConstructed
    /\ ev_hostname = "r1"
    /\ ev_backups = EmptyMap
    /\ ev_call = "idle"
    /\ ev_status = NoStatus
    /\ ev_column = NoColumn
    /\ ev_chart = NoChart
    /\ ev_display = NoDisplay

\* a worker about to construct its ConfigLoader
InitConfig ==
    /\ redis = EmptyMap
    /\ s3_pc = "get_backups"
    /\ s3_backups = EmptyMap
    /\ s3_compliance = EmptyMap
    /\ s3_before = {}
    /\ s3_fetch_failed = FALSE
    /\ s3_response = NoResponse
    /\ bs_pc = "idle"
    /\ bs_backups = EmptyMap
    /\ bs_clean = FALSE
    /\ inv_pc = "get"
    /\ inv_data = <<>>
    /\ inv_existing = {}
    /\ inv_i = 1
    /\ inv_before = EmptyMap
    /\ inv_fetch_failed = FALSE
    /\ inv_redis_failed = FALSE
    /\ rd_pc = "idle"
    /\ rd_keys = {}
    /\ rd_devices = {}
    /\ rd_clean = FALSE
    /\ api_call = NoCall
    /\ api_response = NoApiResponse
    /\ w_gather = "pending"
    /\ w_running = "none"
    /\ w_easynet_pc = "ready"
    /\ w_s3_pc = "ready"
    /\ w_data = <<>>
    /\ w_i = 1
    /\ cfg_input \in ConfigInputs
    /\ cfg_result = NotConstructed
    /\ ev_hostname = "r1"
    /\ ev_backups = EmptyMap
    /\ ev_call = "idle"
    /\ ev_status = NoStatus
    /\ ev_column = NoColumn
    /\ ev_chart = NoChart
    /\ ev_display = NoDisplay

NextConfig == ConfigLoaderInit

NextApi == GetDevicesBackupStatus \/ GetDevice

NextLegacy ==
    \/ WEasynetFetch
    \/ WEasynetDelete
    \/ WEasynetSet
    \/ WEasynetWake
    \/ WS3List
    \/ WS3Wake
    \/ WMainExit

NextEval ==
    EvalFormatter \/ EvalDetails \/ EvalDisplay \/ EvalColumn \/ EvalBar \/ EvalPie

NextBackup ==
    \/ S3GetBackups
    \/ S3GetCompliance
    \/ S3StoreBackups
    \/ S3StoreCompliance
    \/ S3Sleep
    \/ ReadS3Backups
    \/ ReadS3Return

NextPipeline ==
    \/ S3GetBackups
    \/ S3GetCompliance
    \/ S3StoreBackups
    \/ S3StoreCompliance
    \/ S3Sleep
    \/ ReadS3Backups
    \/ ViewEvaluate
    \/ ReadS3Return

NextInventory ==
    \/ InvGetData
    \/ InvKeys
    \/ InvDelete
    \/ InvSet
    \/ InvSleep
    \/ RdKeys
    \/ RdGet
    \/ RdError

\* the pure status functions applied to every drawn input
SpecEval == InitEval /\ [][NextEval]_vars

\* s3_worker.main against a reader of 's3_backups'
SpecBackup == Init /\ [][NextBackup]_vars

\* s3_worker.main against backup_status_view: from the bucket to the status
SpecPipeline == Init /\ [][NextPipeline]_vars

\* worker.py: both jobs as tasks of one event loop
SpecLegacy == Init /\ [][NextLegacy]_vars

\* the joining handlers of the API on every store the jobs can leave
SpecConfig == InitConfig /\ [][NextConfig]_vars

SpecApi == InitApi /\ [][NextApi]_vars

\* easynet_worker.main against get_easynet_devices
SpecInventory == Init /\ [][NextInventory]_vars

\* the steps of easynet_worker.main: the process keeps running, so a step
\* that can be taken is eventually taken
InventoryJob == InvGetData \/ InvKeys \/ InvDelete \/ InvSet \/ InvSleep
SpecInventoryFair == SpecInventory /\ WF_vars(InventoryJob)

Next == NextBackup \/ NextInventory
Spec == Init /\ [][Next]_vars


\* ================================================================ properties
\* what the properties read off the evaluated input
EvHasRecord == ev_hostname \in DOMAIN ev_backups
\* the artifacts get_backup_status_info is given for the hostname
EvStatusList ==
    IF EvHasRecord /\ ev_backups[ev_hostname].backup_data.tag = "dict"
                   /\ ev_backups[ev_hostname].backup_data.has_list
    THEN ev_backups[ev_hostname].backup_data.backup_list
    ELSE <<>>
\* the artifacts the backup-status view is given for the hostname
EvColumnList ==
    IF EvHasRecord /\ ev_backups[ev_hostname].backup_json_data.tag = "dict"
    THEN ev_backups[ev_hostname].backup_json_data.backup_list
    ELSE <<>>
\* positions of the artifacts of type t
OfType(t) ==
    {i \in 1 .. Len(EvStatusList) : EvStatusList[i].isdict /\ EvStatusList[i].type = t}
SetMax(S) == CHOOSE m \in S : \A x \in S : x <= m
SetMin(S) == CHOOSE m \in S : \A x \in S : m <= x

\* the table of section 4.1 on an age factor n/Scale >= 0: the tier is the
\* whole part of the factor, capped at FAILURE
TierOf(n) == IF n >= 5 * Scale THEN 5 ELSE n \div Scale
\* the tier of one artifact: FAILURE without a usable age factor, OK below 1
ArtifactTier(a) ==
    IF a.age_factor.tag # "num" THEN 5
    ELSE IF a.age_factor.v < 0 THEN 0
    ELSE TierOf(a.age_factor.v)
\* the record of a device without backups
Sentinel == [status |-> 5, type_statuses |-> EmptyMap, worst_status |-> 5]

\* C1: a pass of the Backup Sync Job whose listing raised ClientError leaves
\* the value under 's3_backups' as it was when the pass began (stated for
\* passes that began with a non-empty published snapshot)
C1_FailedFetchKeepsBackups ==
    (s3_pc = "sleep" /\ s3_fetch_failed /\ BackupsView(s3_before) # EmptyMap)
        => RedisGet(redis, S3BackupsKey) = s3_before

\* C2: a pass of the Inventory Sync Job whose fetch failed leaves the
\* device:* keys and their values as they were when the pass began (stated
\* for passes that began with a non-empty inventory)
C2_FailedFetchKeepsInventory ==
    (inv_pc = "sleep" /\ inv_fetch_failed /\ inv_before # EmptyMap)
        => DeviceSnapshot(redis) = inv_before

\* C3: a get_easynet_devices request that ran within one pass of the
\* Inventory Sync Job returns exactly the device set the store held when the
\* pass began or exactly the set the pass publishes
C3_ReaderSeesWholeInventory ==
    (rd_pc = "done" /\ rd_clean)
        => rd_devices \in {DeviceSet(inv_before), PublishedSet(inv_data)}

\* C4: at every point of every interleaving the value under 's3_backups' is
\* the entire map the store held when the current pass began or the entire
\* map the pass computed, and so is what a reader obtained
C4_AtomicBackupPublish ==
    /\ BackupsView(RedisGet(redis, S3BackupsKey))
          \in {BackupsView(s3_before), s3_backups}
    /\ (bs_pc = "got" /\ bs_clean)
          => bs_backups \in {BackupsView(s3_before), s3_backups}

\* a reader obtained the entire new map of a pass that replaced a different,
\* non-empty map
C4_Witness ==
    /\ bs_pc = "got" /\ bs_clean
    /\ s3_pc = "sleep"
    /\ bs_backups = s3_backups
    /\ DOMAIN s3_backups # {}
    /\ DOMAIN BackupsView(s3_before) # {}
    /\ BackupsView(s3_before) # s3_backups

\* C5: no pass ends a sync job: neither main ever leaves its `while True`
C5_NothingFatal == inv_pc # "dead" /\ s3_pc # "dead"

\* C6: backup_formatter's classifier gives an age factor in [k, k+1) the
\* status k for k = 0..4 and an age factor >= 5 the status 5, the lower end
\* of each range included
C6_AgeClassifierTiers ==
    ev_call = "formatter" =>
        \A t \in Types : \A i \in OfType(t) :
            (OfType(t) = {i} /\ EvStatusList[i].age_factor.tag = "num"
                             /\ EvStatusList[i].age_factor.v >= 0)
                => /\ t \in DOMAIN ev_status.type_statuses
                   /\ ev_status.type_statuses[t] = TierOf(EvStatusList[i].age_factor.v)

\* an artifact with age factor exactly 2 got status 2
C6_Witness ==
    /\ ev_call = "formatter"
    /\ \E t \in Types : \E i \in OfType(t) :
         /\ OfType(t) = {i}
         /\ EvStatusList[i].age_factor = [tag |-> "num", v |-> 2 * Scale]
         /\ t \in DOMAIN ev_status.type_statuses
         /\ ev_status.type_statuses[t] = 2

\* C7: the status backup_formatter records for a type is the worst status
\* over the artifacts of that type, in whatever order they are listed
C7_WorstPerType ==
    ev_call = "formatter" =>
        \A t \in Types :
            OfType(t) # {} =>
                /\ t \in DOMAIN ev_status.type_statuses
                /\ ev_status.type_statuses[t]
                      = SetMax({ArtifactTier(EvStatusList[i]) : i \in OfType(t)})

\* a FAILURE artifact followed by an OK artifact of the same type: FAILURE
C7_Witness ==
    /\ ev_call = "formatter"
    /\ Len(EvStatusList) = 2
    /\ OfType("config") = {1, 2}
    /\ ArtifactTier(EvStatusList[1]) = 5
    /\ ArtifactTier(EvStatusList[2]) = 0
    /\ ev_status.type_statuses["config"] = 5

\* C8: in every record either get_backup_status_info returns, worst_status
\* is the largest value of a non-empty type_statuses, status equals
\* worst_status, and worst_status is 5 when type_statuses is empty
C8_WorstStatusIsMax ==
    ev_call \in {"formatter", "details"} =>
        LET ts == ev_status.type_statuses
        IN  /\ DOMAIN ts # {} =>
                /\ ev_status.worst_status = SetMax({ts[t] : t \in DOMAIN ts})
                /\ ev_status.status = ev_status.worst_status
            /\ DOMAIN ts = {} => ev_status.worst_status = 5

\* two types with different statuses
C8_Witness ==
    /\ ev_call = "formatter"
    /\ DOMAIN ev_status.type_statuses = Types
    /\ ev_status.type_statuses["config"] = 1
    /\ ev_status.type_statuses["state"] = 4
    /\ ev_status.worst_status = 4

\* C9: for a record with a valid schema whose artifacts all have parseable
\* dates and a positive max_age, the tier format_backup_status_value shows is
\* the worst of the artifacts' own tiers
C9_ColumnShowsWorst ==
    (/\ ev_call = "column"
     /\ EvHasRecord
     /\ ev_backups[ev_hostname].valid_schema = "True"
     /\ EvColumnList # <<>>
     /\ \A i \in 1 .. Len(EvColumnList) :
            /\ EvColumnList[i].date.tag = "iso"
            /\ EvColumnList[i].max_age.tag = "num"
            /\ EvColumnList[i].max_age.v > 0)
        => /\ ev_column.kind = "return"
           /\ ev_column.code =
                SetMax({SetMin({5, EvColumnList[i].date.age \div EvColumnList[i].max_age.v}) :
                          i \in 1 .. Len(EvColumnList)})

\* C10: a hostname without a record, or with a record without artifacts,
\* gets the no-backup sentinel, and no device with an artifact classified as
\* FAILURE gets a record equal to it
C10_NoBackupSentinel ==
    ev_call = "formatter" =>
        /\ EvStatusList = <<>> => ev_status = Sentinel
        /\ (\E t \in Types : \E i \in OfType(t) : ArtifactTier(EvStatusList[i]) = 5)
              => ev_status # Sentinel

\* the hostname is not among the records of a non-empty backups dict
C10_Witness ==
    /\ ev_call = "formatter"
    /\ ~EvHasRecord
    /\ DOMAIN ev_backups # {}
    /\ ev_status = Sentinel

\* ---------------------------------------------- properties of the view values
\* the value the evaluated view function gave
EvResult == IF ev_call = "column" THEN ev_column ELSE ev_chart
\* the same backups with the record's validation outcome replaced
WithValidSchema(backups, hostname, outcome) ==
    [backups EXCEPT ![hostname].valid_schema = outcome]
\* every artifact the view is given has a positive max_age
EvMaxAgesPositive ==
    \A i \in 1 .. Len(EvColumnList) :
        EvColumnList[i].max_age.tag = "num" /\ EvColumnList[i].max_age.v > 0
\* every artifact the view is given has an aware, parseable date
EvDatesParse ==
    \A i \in 1 .. Len(EvColumnList) : EvColumnList[i].date.tag = "iso"

\* C11: a record whose validation outcome is False or None (no template) gets
\* from the table column and from the bar chart the same status as the
\* record that differs from it only in valid_schema being True
C11_SchemaIndependentOfAge ==
    (/\ EvHasRecord
     /\ ev_backups[ev_hostname].valid_schema \in {"False", "None"}
     /\ EvColumnList # <<>>)
        => /\ ev_call = "column" =>
                ev_column = format_backup_status_value(ev_hostname,
                                WithValidSchema(ev_backups, ev_hostname, "True"))
           /\ ev_call = "bar" =>
                ev_chart = backup_status_bar_chart_value(ev_hostname,
                                WithValidSchema(ev_backups, ev_hostname, "True"))

\* C13: when an artifact of a validated record has a missing or non-parseable
\* date and the others are well formed, the table column and the chart value
\* functions return a status tier (0..5) for the device
C13_BadDateIsolated ==
    (/\ ev_call \in {"column", "bar", "pie"}
     /\ EvHasRecord
     /\ ev_backups[ev_hostname].valid_schema = "True"
     /\ EvMaxAgesPositive
     /\ \A i \in 1 .. Len(EvColumnList) :
            EvColumnList[i].date.tag \in {"iso", "bad", "missing"}
     /\ \E i \in 1 .. Len(EvColumnList) :
            EvColumnList[i].date.tag \in {"bad", "missing"})
        => EvResult.kind = "return" /\ EvResult.code \in 0 .. 5

\* C14: when an artifact of a validated record has a max_age of zero or less,
\* the table column and the chart value functions return instead of raising,
\* and return FAILURE when that artifact is the only one
C14_BadMaxAgeIsolated ==
    (/\ ev_call \in {"column", "bar", "pie"}
     /\ EvHasRecord
     /\ ev_backups[ev_hostname].valid_schema = "True"
     /\ EvDatesParse
     /\ \A i \in 1 .. Len(EvColumnList) : EvColumnList[i].max_age.tag = "num"
     /\ \E i \in 1 .. Len(EvColumnList) : EvColumnList[i].max_age.v <= 0)
        => /\ EvResult.kind = "return"
           /\ Len(EvColumnList) = 1 => EvResult.code = 5

\* C20: backup_formatter.get_backup_status_info gives, for every hostname and
\* every backups content, a record whose status, worst_status and per-type
\* statuses are all in 0..5
C20_StatusInfoNeverRaises ==
    ev_call = "formatter" =>
        /\ ev_status.worst_status \in 0 .. 5
        /\ ev_status.status \in 0 .. 5
        /\ \A t \in DOMAIN ev_status.type_statuses :
              ev_status.type_statuses[t] \in 0 .. 5

\* a record whose backup_data is not a dict: the body raised, the sentinel
\* came back
C20_Witness ==
    /\ ev_call = "formatter"
    /\ EvHasRecord
    /\ ev_backups[ev_hostname].backup_data.tag = "nodict"
    /\ ev_status = Sentinel

\* ------------------------------------------- properties of the Backup Sync Job
\* C12: when the record published for r1 comes from a backup.json holding the
\* one artifact {config, now - 3600 s, max_age 1800} and no template exists
\* for its (device_class, vendor), the record has schema false and
\* valid_schema None, and the status evaluated from it is ATTENTION (2) for
\* type config and as the device's worst status
C12_EndToEndAttention ==
    (/\ ev_call = "view"
     /\ ev_hostname = "r1"
     /\ "r1" \in DOMAIN bs_backups
     /\ bs_backups["r1"].backup_json_data = DictData(<<AttentionArtifact>>)
     /\ ~bs_backups["r1"].schema)
        => /\ bs_backups["r1"].valid_schema = "None"
           /\ ev_status.type_statuses = [t \in {"config"} |-> 2]
           /\ ev_status.worst_status = 2
           /\ ev_chart = Returned(2, "")

\* positions of the backup.json objects of a listing whose content is readable
ReadableBackups(contents) ==
    {i \in 1 .. Len(contents) :
        /\ Len(contents[i].parts) = 5
        /\ contents[i].parts[5] = "backup.json"
        /\ IsTruthy(contents[i].body)}

\* C15: when get_s3_backups_data got a listing, it returns, and every
\* backup.json of the listing whose content is readable has its hostname's
\* record in the result, whatever the other objects of the listing hold
C15_MalformedObjectIsolated ==
    s3_response.tag = "ok" =>
        /\ s3_pc # "dead"
        /\ \A i \in ReadableBackups(s3_response.contents) :
              s3_response.contents[i].parts[4] \in DOMAIN s3_backups

\* ---------------------------------------- properties of the Inventory Sync Job
\* C16: a pass whose fetched list holds a record without hostname, and in
\* which no Redis call failed, ends at the interval sleep with every other
\* record of the list stored under its device key
C16_MalformedDeviceIsolated ==
    (/\ inv_pc \in {"sleep", "dead"}
     /\ ~inv_fetch_failed
     /\ ~inv_redis_failed
     /\ \E i \in 1 .. Len(inv_data) : inv_data[i].hostname = NoHostname)
        => /\ inv_pc = "sleep"
           /\ \A i \in 1 .. Len(inv_data) :
                 inv_data[i].hostname # NoHostname
                    => DeviceKey(inv_data[i].hostname) \in DOMAIN redis

\* C19: a fetch of the Inventory Sync Job that waits for an API that never
\* answers still ends, and the job reaches its interval sleep
C19_FetchBounded == (inv_pc = "blocked") ~> (inv_pc = "sleep")

\* ------------------------------------------------- properties of the API join
\* what the store holds for the handlers
ApiInventory == StoredDevices(redis)
ApiBackups == BackupsView(RedisGet(redis, S3BackupsKey))

\* C17: get_devices_backup_status answers 200 with exactly one entry per
\* device of the inventory, joined with the device's backup record when there
\* is one and with the defaults when there is none, and get_device answers
\* 200 for every device of the inventory, whatever hostnames the backup
\* snapshot holds and whether or not it exists
C17_JoinToleratesMismatch ==
    /\ api_call.op = "get_devices_backup_status" =>
          /\ api_response.status = 200
          /\ DOMAIN api_response.body = DOMAIN ApiInventory
          /\ \A h \in DOMAIN ApiInventory :
                /\ api_response.body[h].device = ApiInventory[h]
                /\ api_response.body[h].valid_schema =
                      IF h \in DOMAIN ApiBackups
                      THEN ApiBackups[h].valid_schema ELSE "None"
                /\ api_response.body[h].schema =
                      (h \in DOMAIN ApiBackups /\ ApiBackups[h].schema)
    /\ (api_call.op = "get_device" /\ api_call.hostname \in DOMAIN ApiInventory) =>
          /\ api_response.status = 200
          /\ api_response.body.device = ApiInventory[api_call.hostname]
          /\ api_response.body.has_backup_info
                = (api_call.hostname \in DOMAIN ApiBackups)
          /\ api_call.hostname \in DOMAIN ApiBackups =>
                api_response.body.backup_info = ApiBackups[api_call.hostname]

\* the inventory and the backup snapshot hold hostnames the other lacks, and
\* the joined listing answered with the inventory's devices only
C17_Witness ==
    /\ api_call.op = "get_devices_backup_status"
    /\ DOMAIN ApiInventory \ DOMAIN ApiBackups # {}
    /\ DOMAIN ApiBackups \ DOMAIN ApiInventory # {}
    /\ api_response.status = 200
    /\ DOMAIN api_response.body = DOMAIN ApiInventory

\* --------------------------------------- properties of the single-process worker
\* C18: an exception in one task never leaves the other task cancelled, and a
\* task stalled in a call never leaves the other task due but unable to run
C18_JobsIndependent ==
    /\ w_easynet_pc = "raised" => w_s3_pc # "cancelled"
    /\ w_s3_pc = "raised" => w_easynet_pc # "cancelled"
    /\ w_easynet_pc = "blocked" => w_s3_pc # "ready"

\* ------------------------------------------------ empty artifact lists
\* C21: for a hostname that has a record with a present but empty artifact
\* list, the table column and the bar and pie chart values are a sentinel
\* (a negative code), never one of the tiers 0 .. 5
C21_EmptyListIsSentinel ==
    (/\ ev_call \in {"column", "bar", "pie"}
     /\ EvHasRecord
     /\ ev_backups[ev_hostname].backup_json_data = DictData(<<>>))
        => (EvResult.kind = "return" /\ EvResult.code < 0)

\* C22: the cell format_backup_display makes of get_backup_status_info's
\* result carries the 'No backup.json' marker for a hostname without a record
\* and the 'Empty/invalid backup.json' marker for a record without artifacts
C22_DisplayDistinguishesCases ==
    ev_call = "display" =>
        /\ ~EvHasRecord => ev_display.marker = "No backup.json"
        /\ (EvHasRecord /\ EvStatusList = <<>>)
              => ev_display.marker = "Empty/invalid backup.json"

\* C29: backup_formatter's and device_details' get_backup_status_info return
\* the same record for every hostname and every backups dict
C29_StatusInfoDefinitionsAgree ==
    ev_call = "formatter" =>
        ev_status = details_get_backup_status_info(ev_hostname, ev_backups)

\* ---------------------------------------- properties of the published records
\* the listing holds the template.json of the pair with a readable content
TemplateLoaded(contents, device_class, vendor) ==
    \E j \in 1 .. Len(contents) :
        /\ contents[j].parts = <<"backups", device_class, vendor, "template.json">>
        /\ IsTruthy(contents[j].body)
\* the outcome of validating an object's payload against its pair's template
ExpectedValid(contents, obj) ==
    IF ~TemplateLoaded(contents, obj.parts[2], obj.parts[3]) THEN "None"
    ELSE IF \E j \in 1 .. Len(contents) :
                /\ contents[j].parts = <<"backups", obj.parts[2], obj.parts[3], "template.json">>
                /\ obj.body.id \in contents[j].body.accepts
         THEN "True" ELSE "False"
\* the backup.json objects of a hostname, and those with a readable content
BackupsOf(contents, hostname) ==
    {i \in 1 .. Len(contents) :
        /\ Len(contents[i].parts) = 5
        /\ contents[i].parts[5] = "backup.json"
        /\ contents[i].parts[4] = hostname}
ReadableOf(contents, hostname) ==
    BackupsOf(contents, hostname) \cap ReadableBackups(contents)
\* get_s3_backups_data has just returned the records of a listing
ListingProcessed == s3_response.tag = "ok" /\ s3_pc = "get_compliance"

\* C23: in the records get_s3_backups_data returns for a listing, the record
\* of each backup.json (the one its hostname ends with) has schema true
\* exactly when the listing holds, at any position, the readable template.json
\* of the object's own (device_class, vendor), and its valid_schema is the
\* outcome of validating the payload against that template
C23_SchemaOfOwnPair ==
    ListingProcessed =>
        \A h \in DOMAIN s3_backups :
            \A i \in ReadableOf(s3_response.contents, h) :
                i = SetMax(ReadableOf(s3_response.contents, h)) =>
                    LET obj == s3_response.contents[i]
                    IN  /\ s3_backups[h].schema =
                              TemplateLoaded(s3_response.contents, obj.parts[2], obj.parts[3])
                        /\ s3_backups[h].valid_schema =
                              ExpectedValid(s3_response.contents, obj)

\* a backup.json listed before the template of its pair, and a backup.json
\* of another vendor that stays without schema
C23_Witness ==
    /\ ListingProcessed
    /\ Len(s3_response.contents) = 2
    /\ s3_response.contents[2].parts[4] = "template.json"
    /\ IsTruthy(s3_response.contents[2].body)
    /\ \E h \in DOMAIN s3_backups : s3_backups[h].schema

C23_WitnessOtherPair ==
    /\ ListingProcessed
    /\ \E j \in 1 .. Len(s3_response.contents) :
          /\ s3_response.contents[j].parts[4] = "template.json"
          /\ IsTruthy(s3_response.contents[j].body)
    /\ \E h \in DOMAIN s3_backups : ~s3_backups[h].schema

\* every record of a backups dict is consistent in schema and valid_schema
TriState(backups) ==
    \A h \in DOMAIN backups :
        /\ backups[h].valid_schema \in {"None", "True", "False"}
        /\ (backups[h].valid_schema = "None") <=> ~backups[h].schema

\* C24: in every record the job holds or has published under 's3_backups',
\* valid_schema is None exactly when schema is false and True or False
\* exactly when schema is true
C24_ValidSchemaTriState ==
    /\ TriState(s3_backups)
    /\ \A published \in RedisGet(redis, S3BackupsKey) : TriState(loads(published))

\* a published snapshot with a record that failed validation
C24_Witness ==
    \E published \in RedisGet(redis, S3BackupsKey) :
        \E h \in DOMAIN loads(published) :
            /\ loads(published)[h].schema
            /\ loads(published)[h].valid_schema = "False"

\* the record an object gives within a listing
RecordOf(contents, obj) ==
    [device_class |-> obj.parts[2], vendor |-> obj.parts[3],
     schema |-> TemplateLoaded(contents, obj.parts[2], obj.parts[3]),
     valid_schema |-> ExpectedValid(contents, obj),
     backup_json_data |-> obj.body.data]

\* C28 as stated: the record of a hostname is the record of the last
\* backup.json of that hostname in listing order
C28_LastInListingOrder ==
    ListingProcessed =>
        \A h \in DOMAIN s3_backups :
            s3_backups[h] =
                RecordOf(s3_response.contents,
                         s3_response.contents[SetMax(BackupsOf(s3_response.contents, h))])

\* C28: the returned dict has a record exactly for the hostnames with a
\* readable backup.json, and each record is, in all five fields, the record
\* of one object: the last backup.json of the hostname in listing order whose
\* content could be read
C28_RecordOfOneObject ==
    ListingProcessed =>
        /\ DOMAIN s3_backups =
              {s3_response.contents[i].parts[4] : i \in ReadableBackups(s3_response.contents)}
        /\ \A h \in DOMAIN s3_backups :
              s3_backups[h] =
                  RecordOf(s3_response.contents,
                           s3_response.contents[SetMax(ReadableOf(s3_response.contents, h))])

\* one hostname listed under two vendor directories, both readable
C28_Witness ==
    /\ ListingProcessed
    /\ \E h \in DOMAIN s3_backups :
          /\ Cardinality(ReadableOf(s3_response.contents, h)) = 2
          /\ s3_backups[h].vendor = "juniper"

\* ------------------------------------------------- the inventory as a whole
\* a pass of the Inventory Sync Job that fetched its list and stored it
\* without a failed Redis call has reached the interval sleep
PublishCompleted ==
    inv_pc = "sleep" /\ ~inv_fetch_failed /\ ~inv_redis_failed

\* a step taken between two publishes leaves every device key as it was
DeviceKeysKept ==
    (inv_pc \in {"sleep", "get", "keys", "blocked"})
        => DeviceSnapshot(redis') = DeviceSnapshot(redis)

\* C25: when a pass that fetched the list inv_data has completed publishing,
\* the device keys of the store are exactly the hostnames of the list, each
\* holding the list's last record of that hostname; and while the job sleeps,
\* fetches and reads the existing keys, no device key changes
C25_InventoryReplacedWholesale ==
    /\ [](PublishCompleted =>
            /\ RedisKeys(redis) =
                  {DeviceKey(inv_data[i].hostname) : i \in 1 .. Len(inv_data)}
            /\ \A d \in PublishedSet(inv_data) :
                  redis[DeviceKey(d.hostname)] = dumps(d))
    /\ [][DeviceKeysKept]_vars

\* a completed publish of a list that repeats r1 and no longer holds r2,
\* over a store that held r2
C25_Witness ==
    /\ PublishCompleted
    /\ DeviceKey("r2") \in DOMAIN inv_before
    /\ Len(inv_data) = 2
    /\ inv_data[1].hostname = "r1"
    /\ inv_data[2].hostname = "r1"
    /\ inv_data[1] # inv_data[2]
    /\ RedisKeys(redis) = {DeviceKey("r1")}

\* ------------------------------------------------- properties of the API
\* C26: get_device answers 404 when the store has no device key of the
\* hostname, and otherwise 200 with the device record and its backup_info
C26_UnknownDeviceIs404 ==
    api_call.op = "get_device" =>
        IF DeviceKey(api_call.hostname) \notin DOMAIN redis
        THEN api_response.status = 404
        ELSE /\ api_response.status = 200
             /\ api_response.body.device = ApiInventory[api_call.hostname]

\* C27: for every device of the inventory whose hostname has a record in the
\* published backup snapshot, get_devices_backup_status reports backup_json
\* true and as many backup_files entries as the record's backup list holds
C27_BackupFilesListed ==
    api_call.op = "get_devices_backup_status" =>
        /\ api_response.status = 200
        /\ \A h \in DOMAIN ApiInventory \cap DOMAIN ApiBackups :
              /\ api_response.body[h].backup_json
              /\ Len(api_response.body[h].backup_files) =
                    Len(ApiBackups[h].backup_json_data.backup_list)

\* ------------------------------------------------ properties of ConfigLoader
\* what each source gives for a setting, "None" when it gives nothing
YamlProvides(K) ==
    LET settings == cfg_input.yaml.settings
        spelled == {k \in DOMAIN settings : Upper(k) = K}
    IN  IF ~cfg_input.yaml.exists \/ spelled = {} THEN "None"
        ELSE yaml_value(settings[CHOOSE k \in spelled : TRUE])
EnvFileProvides(K) ==
    LET lines == cfg_input.env_file.lines
        spelled == {i \in 1 .. Len(lines) : Upper(lines[i].key) = K}
    IN  IF spelled = {} THEN "None" ELSE lines[SetMax(spelled)].value
\* the environment is consulted for the required keys
EnvVarProvides(K) ==
    IF K \in required_keys_upper(cfg_input.required_keys)
    THEN getenv(cfg_input.environ, K) ELSE "None"
DefaultProvides(K) ==
    IF K \in DOMAIN cfg_input.defaults THEN cfg_input.defaults[K] ELSE "None"
\* the value of the first source, in priority order, that gives one
FirstProvided(K) ==
    IF YamlProvides(K) # "None" THEN YamlProvides(K)
    ELSE IF EnvFileProvides(K) # "None" THEN EnvFileProvides(K)
    ELSE IF EnvVarProvides(K) # "None" THEN EnvVarProvides(K)
    ELSE DefaultProvides(K)

\* C30: construction completes exactly when every required key has a source
\* giving it a non-None value, and the completed config holds for each
\* setting the value of the first of YAML file, .env.<env> file, environment
\* variable and default that gives one
C30_ConfigPriorityOrder ==
    cfg_result.pc # "new" =>
        /\ (cfg_result.pc = "done") <=>
              \A K \in required_keys_upper(cfg_input.required_keys) :
                  FirstProvided(K) # "None"
        /\ cfg_result.pc = "done" =>
              \A K \in {Upper(k) : k \in ConfigSpellings} :
                  FirstProvided(K) # "None" =>
                      /\ K \in DOMAIN cfg_result.config
                      /\ cfg_result.config[K] = FirstProvided(K)


=============================================================================
